---------------------------- MODULE Spec2Model ----------------------------
(***************************************************************************)
(* Model of src/app.py: image_to_excel_pixel_art (lines 10-84) and the     *)
(* Streamlit script that calls it (lines 123-172).                          *)
(*                                                                         *)
(* One conversion is one run of the state machine: the button press, the   *)
(* decode, the resize decision, the workbook set-up, the pixel walk (one   *)
(* step per pixel, one per finished row), the finalisation, the save and   *)
(* the return to the caller.  A library call may raise at any stage; the   *)
(* function holds no handler, so the caller's except clause takes over.     *)
(*                                                                         *)
(* Python's float arithmetic (lines 33-35 and 71) is IEEE-754 binary64,     *)
(* modelled bit by bit: a float is a 53-bit mantissa and an exponent.       *)
(***************************************************************************)
EXTENDS Integers, Sequences, FiniteSets, TLC

VARIABLES
    uploaded_file,    \* the decoded content of the upload: [mode, w, h, pix]
    resize_image,     \* sidebar checkbox (should_resize)
    max_size,         \* sidebar slider (max_size)
    selected_method,  \* sidebar selectbox (resampling_method)
    color_count,      \* [colors] of the quantizing variant, None in src
    pc,               \* position in the script / in the function
    img,              \* the function's local img: [mode, w, h, pix] or None
    new_size,         \* [new_width, new_height] once computed, else None
    ws,               \* the worksheet being built
    fills,            \* the PatternFill objects created so far (a heap)
    fill_cache,       \* hex_color -> index of its PatternFill in fills
    x, y,             \* the loop variables of the pixel walk
    progress,         \* the values handed to progress_bar.progress, in order
    notices,          \* st.info / st.warning / st.success / st.error, in order
    buffer,           \* the function's local buffer: [data, pos] or None
    raised,           \* the stage whose exception is propagating, or NoStage
    download          \* what st.download_button offers, or None

vars == <<uploaded_file, resize_image, max_size, selected_method, color_count,
          pc, img, new_size, ws, fills, fill_cache, x, y, progress, notices,
          buffer, raised, download>>

\* Python's None, where a record is expected
None == [none |-> TRUE]
\* no exception is propagating
NoStage == "none"

-----------------------------------------------------------------------------
(* Bounds of the model.                                                    *)

\* Spec: uploads are at most MaxDim x MaxDim pixels, every pixel of Palette.
MaxDim == 2
\* Spec: the slider value ranges over 1..MaxSize.
MaxSize == 2
\* SpecResize: uploads up to MaxSrcDim x MaxSrcDim, slider over 1..MaxTarget.
MaxSrcDim == 23
MaxTarget == 15
\* SpecQuant: the colour count ranges over 1..MaxColorCount.
MaxColorCount == 2

\* The colours a pixel may have: one needing no zero padding in hex, one
\* needing it in every channel.
ColorA == <<255, 0, 0>>
ColorB == <<0, 15, 16>>
Palette == { ColorA, ColorB }
\* the same with an alpha channel: one opaque, one transparent
AlphaA == <<255, 0, 0, 255>>
AlphaB == <<0, 15, 16, 0>>

Methods == {"NEAREST", "LANCZOS"}

-----------------------------------------------------------------------------
(* IEEE-754 binary64, round to nearest, ties to even.  A positive float is *)
(* [m, e]: m a sequence of MantBits bits, the first of them 1, standing    *)
(* for 0.m[1]m[2]...m[53] * 2^e.                                           *)

MantBits == 53

RECURSIVE Pow2(_)
Pow2(n) == IF n = 0 THEN 1 ELSE 2 * Pow2(n - 1)

Front(s) == SubSeq(s, 1, Len(s) - 1)
Last(s) == s[Len(s)]

RECURSIVE BitsToInt(_)
BitsToInt(b) == IF b = <<>> THEN 0 ELSE 2 * BitsToInt(Front(b)) + Last(b)

RECURSIVE IntToBits(_)
IntToBits(n) == IF n = 0 THEN <<>> ELSE Append(IntToBits(n \div 2), n % 2)

RECURSIVE Zeros(_)
Zeros(n) == IF n = 0 THEN <<>> ELSE <<0>> \o Zeros(n - 1)

\* a/b = (n/d) * 2^e with 1/2 <= n/d < 1
RECURSIVE ScaleDen(_, _, _)
ScaleDen(a, d, e) == IF d > a THEN [n |-> a, d |-> d, e |-> e]
                     ELSE ScaleDen(a, 2 * d, e + 1)
RECURSIVE ScaleNum(_, _, _)
ScaleNum(n, d, e) == IF 2 * n >= d THEN [n |-> n, d |-> d, e |-> e]
                     ELSE ScaleNum(2 * n, d, e - 1)
Normalize(a, b) == LET up == ScaleDen(a, b, 0) IN ScaleNum(up.n, up.d, up.e)

\* the first k bits of n/d (n < d) after the binary point, and the remainder
RECURSIVE LongDiv(_, _, _, _)
LongDiv(n, d, k, acc) ==
    IF k = 0 THEN [bits |-> acc, rem |-> n]
    ELSE IF 2 * n >= d THEN LongDiv(2 * n - d, d, k - 1, Append(acc, 1))
                       ELSE LongDiv(2 * n, d, k - 1, Append(acc, 0))

RECURSIVE IncBits(_)
IncBits(b) == IF b = <<>> THEN <<>>
              ELSE IF Last(b) = 0 THEN Append(Front(b), 1)
              ELSE Append(IncBits(Front(b)), 0)

AllOnes(b) == \A i \in 1..Len(b) : b[i] = 1

\* bits: more than MantBits bits, the first 1; sticky: a non-zero tail beyond
RoundNearestEven(bits, sticky, e) ==
    LET head  == SubSeq(bits, 1, MantBits)
        guard == bits[MantBits + 1]
        rest  == sticky \/ \E i \in (MantBits + 2)..Len(bits) : bits[i] = 1
        up    == guard = 1 /\ (rest \/ head[MantBits] = 1)
    IN  IF ~up THEN [m |-> head, e |-> e]
        ELSE IF AllOnes(head) THEN [m |-> <<1>> \o Zeros(MantBits - 1), e |-> e + 1]
        ELSE [m |-> IncBits(head), e |-> e]

\* int / int, both positive: the correctly rounded quotient
FloatDiv(a, b) ==
    LET nz == Normalize(a, b)
        ld == LongDiv(nz.n, nz.d, MantBits + 1, <<>>)
    IN  RoundNearestEven(ld.bits, ld.rem # 0, nz.e)

\* the exact product of a bit string by a positive int, as a bit string
RECURSIVE MulBits(_, _, _, _)
MulBits(bits, n, carry, acc) ==
    IF bits = <<>> THEN IntToBits(carry) \o acc
    ELSE MulBits(Front(bits), n, (Last(bits) * n + carry) \div 2,
                 <<(Last(bits) * n + carry) % 2>> \o acc)

\* int * float: the int converts exactly, the product is rounded
FloatMulInt(n, f) ==
    LET prod == MulBits(f.m, n, 0, <<>>)
    IN  RoundNearestEven(Append(prod, 0), FALSE, f.e + Len(prod) - MantBits)

FloatLess(f, g) ==
    \/ f.e < g.e
    \/ /\ f.e = g.e
       /\ \E i \in 1..MantBits : /\ f.m[i] < g.m[i]
                                 /\ \A j \in 1..(i - 1) : f.m[j] = g.m[j]

\* min(a, b) of Python: the first argument unless the second is smaller
PyMin(a, b) == IF FloatLess(b, a) THEN b ELSE a

\* int(f): truncation toward zero
FloatToInt(f) ==
    IF f.e <= 0 THEN 0
    ELSE IF f.e <= MantBits THEN BitsToInt(SubSeq(f.m, 1, f.e))
    ELSE BitsToInt(f.m) * Pow2(f.e - MantBits)

FloatOne == [m |-> <<1>> \o Zeros(MantBits - 1), e |-> 1]


-----------------------------------------------------------------------------
(* Images, colours, column letters.                                        *)

\* every W x H RGB image over Palette; pix[<<x, y>>] is img.getpixel((x, y))
Images(W, H) ==
    { [mode |-> "RGB", w |-> W, h |-> H, pix |-> p] :
        p \in [ (0..(W - 1)) \X (0..(H - 1)) -> Palette ] }

\* W x H RGBA images: one of a single colour, one chequered
AlphaImages(W, H) ==
    { [mode |-> "RGBA", w |-> W, h |-> H,
       pix |-> [c \in (0..(W - 1)) \X (0..(H - 1)) |-> AlphaA]],
      [mode |-> "RGBA", w |-> W, h |-> H,
       pix |-> [c \in (0..(W - 1)) \X (0..(H - 1)) |->
                  IF (c[1] + c[2]) % 2 = 0 THEN AlphaB ELSE AlphaA]] }

\* line 27: img.convert('RGB') drops the alpha channel
convert(image) ==
    [mode |-> "RGB", w |-> image.w, h |-> image.h,
     pix |-> [c \in DOMAIN image.pix |->
                << image.pix[c][1], image.pix[c][2], image.pix[c][3] >>]]

\* lines 24-27: the image the function works on
Decoded(file) == IF file.mode # "RGB" THEN convert(file) ELSE file

SolidImage(W, H) ==
    [mode |-> "RGB", w |-> W, h |-> H,
     pix |-> [c \in (0..(W - 1)) \X (0..(H - 1)) |-> ColorA]]

CheckerImage(W, H) ==
    [mode |-> "RGB", w |-> W, h |-> H,
     pix |-> [c \in (0..(W - 1)) \X (0..(H - 1)) |->
                IF (c[1] + c[2]) % 2 = 0 THEN ColorA ELSE ColorB]]

Colors(image) == { image.pix[c] : c \in DOMAIN image.pix }

HexDigits ==
    << "0", "1", "2", "3", "4", "5", "6", "7",
       "8", "9", "a", "b", "c", "d", "e", "f" >>

\* f"{v:02x}" for v in 0..255
Hex2(v) == << HexDigits[(v \div 16) + 1], HexDigits[(v % 16) + 1] >>

\* f"{r:02x}{g:02x}{b:02x}"
HexColor(rgb) == Hex2(rgb[1]) \o Hex2(rgb[2]) \o Hex2(rgb[3])

Letters ==
    << "A", "B", "C", "D", "E", "F", "G", "H", "I", "J", "K", "L", "M",
       "N", "O", "P", "Q", "R", "S", "T", "U", "V", "W", "X", "Y", "Z" >>

\* openpyxl.utils.get_column_letter: bijective base 26
RECURSIVE get_column_letter(_)
get_column_letter(n) ==
    IF n = 0 THEN <<>>
    ELSE get_column_letter((n - 1) \div 26) \o << Letters[((n - 1) % 26) + 1] >>

COLUMN_WIDTH == 2
ROW_HEIGHT == 12

PatternFill(hex) == [start_color |-> hex, end_color |-> hex, fill_type |-> "solid"]

-----------------------------------------------------------------------------
(* The resize arithmetic of lines 32-35.                                   *)

\* mutant: the toggle of line 30 is not consulted
ResizeAlways == TRUE

\* line 30
ResizeRequested == resize_image

\* mutant: line 32 asks whether the size differs from max_size, and so upscales
NeedsResizeUpscale(width, height, max) == width # max \/ height # max

\* line 32
NeedsResize(width, height, max) == width > max \/ height > max

NewSize(width, height, max) ==
    LET ratio == PyMin(FloatDiv(max, width), FloatDiv(max, height))
    IN  [new_width  |-> FloatToInt(FloatMulInt(width, ratio)),
         new_height |-> FloatToInt(FloatMulInt(height, ratio))]

\* Image.resize: NEAREST copies the source pixel under each output pixel's
\* centre; LANCZOS interpolates and may produce any colour at any pixel.
Resample(image, nw, nh, method) ==
    IF method = "NEAREST"
    THEN { [mode |-> "RGB", w |-> nw, h |-> nh,
            pix |-> [c \in (0..(nw - 1)) \X (0..(nh - 1)) |->
                       image.pix[<< ((2 * c[1] + 1) * image.w) \div (2 * nw),
                                    ((2 * c[2] + 1) * image.h) \div (2 * nh) >>]]] }
    ELSE Images(nw, nh)

\* the stage after the resize decision: the workbook, or first the colour
\* quantizer when a colour count is configured
AfterResize == IF color_count = None THEN "workbook" ELSE "quantize"

-----------------------------------------------------------------------------
(* The initial states.                                                     *)

Idle ==
    /\ pc = "idle"
    /\ img = None
    /\ new_size = None
    /\ ws = None
    /\ fills = <<>>
    /\ fill_cache = <<>>
    /\ x = 0
    /\ y = 0
    /\ progress = <<>>
    /\ notices = <<>>
    /\ buffer = None
    /\ raised = NoStage
    /\ download = None

Init ==
    /\ uploaded_file \in UNION { Images(W, H) \cup AlphaImages(W, H) :
                                    W \in 1..MaxDim, H \in 1..MaxDim }
    /\ resize_image \in BOOLEAN
    /\ max_size \in 1..MaxSize
    /\ selected_method \in Methods
    /\ color_count = None
    /\ Idle

InitResize ==
    /\ uploaded_file \in { SolidImage(W, H) : W \in 1..MaxSrcDim, H \in 1..MaxSrcDim }
    /\ resize_image \in BOOLEAN
    /\ max_size \in 1..MaxTarget
    /\ selected_method = "NEAREST"
    /\ color_count = None
    /\ Idle

InitQuant ==
    /\ uploaded_file \in UNION { {SolidImage(W, H), CheckerImage(W, H)} :
                                    W \in 1..MaxDim, H \in 1..MaxDim }
    /\ resize_image \in BOOLEAN
    /\ max_size \in 1..MaxSize
    /\ selected_method = "NEAREST"
    /\ color_count \in { [colors |-> n] : n \in 1..MaxColorCount }
    /\ Idle


-----------------------------------------------------------------------------
(* Exceptions.  image_to_excel_pixel_art holds no try statement: an         *)
(* exception raised at a stage leaves the function, its locals are gone,   *)
(* and the caller's except clause (line 170) is the next thing to run.      *)
(* What the UI already showed (progress, notices) stays shown.             *)

\* mutant: the function swallows the exception and returns what it has
PropagateRecover(stage) ==
    /\ raised' = stage
    /\ pc' = "return"
    /\ buffer' = [data |-> ws, pos |-> 0]
    /\ UNCHANGED <<uploaded_file, resize_image, max_size, selected_method,
                   color_count, img, new_size, ws, fills, fill_cache, x, y,
                   progress, notices, download>>

Propagate(stage) ==
    /\ raised' = stage
    /\ pc' = "except"
    /\ img' = None
    /\ new_size' = None
    /\ ws' = None
    /\ fills' = <<>>
    /\ fill_cache' = <<>>
    /\ x' = 0
    /\ y' = 0
    /\ buffer' = None
    /\ UNCHANGED <<uploaded_file, resize_image, max_size, selected_method,
                   color_count, progress, notices, download>>

\* the stages whose library call may raise, by position
FailingStage ==
    CASE pc = "open"      -> "decode"
      [] pc = "do_resize" -> "resize"
      [] pc = "walk"      -> "pixel walk"
      [] pc = "save"      -> "serialization"
      [] OTHER            -> NoStage

-----------------------------------------------------------------------------
(* The script, lines 129-148: a file is uploaded, the button is pressed.   *)

Click ==
    /\ pc = "idle"
    /\ pc' = "open"
    /\ notices' = IF resize_image THEN notices
                  ELSE Append(notices, [kind |-> "error", about |-> "original size"])
    /\ UNCHANGED <<uploaded_file, resize_image, max_size, selected_method,
                   color_count, img, new_size, ws, fills, fill_cache, x, y,
                   progress, buffer, raised, download>>

(* Lines 24-27: Image.open and the conversion to RGB.                      *)
Open ==
    /\ pc = "open"
    /\ img' = Decoded(uploaded_file)
    /\ pc' = "resize"
    /\ UNCHANGED <<uploaded_file, resize_image, max_size, selected_method,
                   color_count, new_size, ws, fills, fill_cache, x, y,
                   progress, notices, buffer, raised, download>>

(* Lines 30-35: resizing is on and a side exceeds max_size.                *)
ComputeSize ==
    /\ pc = "resize"
    /\ ResizeRequested
    /\ NeedsResize(img.w, img.h, max_size)
    /\ new_size' = NewSize(img.w, img.h, max_size)
    /\ pc' = "do_resize"
    /\ UNCHANGED <<uploaded_file, resize_image, max_size, selected_method,
                   color_count, img, ws, fills, fill_cache, x, y,
                   progress, notices, buffer, raised, download>>

(* Lines 36-37: img.resize, which rejects a size with a side below 1       *)
(* ("height and width must be > 0"), and the notice.                       *)
DoResize ==
    /\ pc = "do_resize"
    /\ IF new_size.new_width < 1 \/ new_size.new_height < 1
       THEN Propagate("resize")
       ELSE /\ img' \in Resample(img, new_size.new_width, new_size.new_height,
                                    selected_method)
            /\ notices' = Append(notices,
                   [kind |-> "info", about |-> "resized"])
            /\ pc' = AfterResize
            /\ UNCHANGED <<uploaded_file, resize_image, max_size, selected_method,
                           color_count, new_size, ws, fills, fill_cache, x, y,
                           progress, buffer, raised, download>>

(* Lines 30-32, the condition of line 32 false: the image stays as it is.  *)
KeepSize ==
    /\ pc = "resize"
    /\ ResizeRequested
    /\ ~NeedsResize(img.w, img.h, max_size)
    /\ pc' = AfterResize
    /\ UNCHANGED <<uploaded_file, resize_image, max_size, selected_method,
                   color_count, img, new_size, ws, fills, fill_cache, x, y,
                   progress, notices, buffer, raised, download>>

(* Lines 38-39: resizing is off.                                            *)
OriginalSize ==
    /\ pc = "resize"
    /\ ~ResizeRequested
    /\ notices' = Append(notices, [kind |-> "warning", about |-> "original size"])
    /\ pc' = AfterResize
    /\ UNCHANGED <<uploaded_file, resize_image, max_size, selected_method,
                   color_count, img, new_size, ws, fills, fill_cache, x, y,
                   progress, buffer, raised, download>>

(* The colour quantizer of the spec's section 4.2: an image of the same    *)
(* size with at most color_count distinct colours, as direct RGB.          *)
Quantize ==
    /\ pc = "quantize"
    /\ img' \in { q \in Images(img.w, img.h) : Cardinality(Colors(q)) <= color_count.colors }
    /\ pc' = "workbook"
    /\ UNCHANGED <<uploaded_file, resize_image, max_size, selected_method,
                   color_count, new_size, ws, fills, fill_cache, x, y,
                   progress, notices, buffer, raised, download>>

(* Lines 41-45: the workbook and its sheet.                                *)
NewSheet ==
    [title |-> "Pixel Art", column_widths |-> <<>>, row_heights |-> <<>>,
     cells |-> <<>>, showGridLines |-> TRUE]

CreateWorkbook ==
    /\ pc = "workbook"
    /\ ws' = NewSheet
    /\ pc' = "columns"
    /\ UNCHANGED <<uploaded_file, resize_image, max_size, selected_method,
                   color_count, img, new_size, fills, fill_cache, x, y,
                   progress, notices, buffer, raised, download>>

(* Lines 47-48: the loop over the columns.                                  *)
SetColumnWidths ==
    /\ pc = "columns"
    /\ ws' = [ws EXCEPT !.column_widths =
                 [l \in { get_column_letter(c) : c \in 1..img.w } |-> COLUMN_WIDTH]]
    /\ pc' = "rows"
    /\ UNCHANGED <<uploaded_file, resize_image, max_size, selected_method,
                   color_count, img, new_size, fills, fill_cache, x, y,
                   progress, notices, buffer, raised, download>>

(* Lines 50-51: the loop over the rows.                                     *)
SetRowHeights ==
    /\ pc = "rows"
    /\ ws' = [ws EXCEPT !.row_heights = [r \in 1..img.h |-> ROW_HEIGHT]]
    /\ pc' = "cache"
    /\ UNCHANGED <<uploaded_file, resize_image, max_size, selected_method,
                   color_count, img, new_size, fills, fill_cache, x, y,
                   progress, notices, buffer, raised, download>>

(* Lines 53-57: the empty cache, the progress bar, the walk's start.       *)
StartWalk ==
    /\ pc = "cache"
    /\ fill_cache' = <<>>
    /\ fills' = <<>>
    /\ progress' = <<>>
    /\ x' = 0
    /\ y' = 0
    /\ pc' = "walk"
    /\ UNCHANGED <<uploaded_file, resize_image, max_size, selected_method,
                   color_count, img, new_size, ws, notices, buffer, raised,
                   download>>

\* mutant: the cache is written but never consulted
LookupFillNoCache(heap, cache, hex) ==
    [fills |-> Append(heap, PatternFill(hex)),
     cache |-> [k \in (DOMAIN cache) \cup {hex} |->
                  IF k = hex THEN Len(heap) + 1 ELSE cache[k]],
     fill  |-> Len(heap) + 1]

(* Lines 62-66: the fill of a colour, from the cache or new and cached.    *)
\* [fills, cache, fill]: the heap, the cache and the fill's index after
LookupFill(heap, cache, hex) ==
    IF hex \in DOMAIN cache
    THEN [fills |-> heap, cache |-> cache, fill |-> cache[hex]]
    ELSE [fills |-> Append(heap, PatternFill(hex)),
          cache |-> cache @@ (hex :> (Len(heap) + 1)),
          fill  |-> Len(heap) + 1]

\* mutant: the walk reads the image as uploaded, not the processed one
getpixel_stale(px, py) == uploaded_file.pix[<<px, py>>]

\* line 59: img.getpixel((px, py))
getpixel(px, py) == img.pix[<<px, py>>]

\* mutant: row and column exchanged
CellOfTransposed(px, py) == << px + 1, py + 1 >>

\* line 68: the cell of pixel (px, py), as <<row, column>>
CellOf(px, py) == << py + 1, px + 1 >>

(* Lines 58-69: one pixel.                                                  *)
PixelStep ==
    /\ pc = "walk"
    /\ y < img.h
    /\ x < img.w
    /\ LET hex_color == HexColor(getpixel(x, y))
           got == LookupFill(fills, fill_cache, hex_color)
       IN  /\ fills' = got.fills
           /\ fill_cache' = got.cache
           /\ ws' = [ws EXCEPT !.cells =
                        [c \in (DOMAIN ws.cells) \cup {CellOf(x, y)} |->
                            IF c = CellOf(x, y) THEN got.fill ELSE ws.cells[c]]]
    /\ x' = x + 1
    /\ UNCHANGED <<uploaded_file, resize_image, max_size, selected_method,
                   color_count, pc, img, new_size, y, progress, notices,
                   buffer, raised, download>>

\* mutant: the fraction never reaches 1.0
RowFractionOffByOne(row, height) == FloatDiv(row + 1, height + 1)

\* line 71: (y + 1) / height
RowFraction(row, height) == FloatDiv(row + 1, height)

(* Lines 71-72 and the next turn of line 57: a row is finished.            *)
RowDone ==
    /\ pc = "walk"
    /\ y < img.h
    /\ x = img.w
    /\ progress' = Append(progress, [value |-> RowFraction(y, img.h), text |-> ""])
    /\ y' = y + 1
    /\ x' = 0
    /\ UNCHANGED <<uploaded_file, resize_image, max_size, selected_method,
                   color_count, pc, img, new_size, ws, fills, fill_cache,
                   notices, buffer, raised, download>>

\* line 76: progress_bar.progress(1.0, text="Finalizing Excel file...")
FinalProgress(calls) == Append(calls, [value |-> FloatOne, text |-> "Finalizing"])

(* Lines 74-76: after the last row.                                         *)
Finalize ==
    /\ pc = "walk"
    /\ y = img.h
    /\ ws' = [ws EXCEPT !.showGridLines = FALSE]
    /\ progress' = FinalProgress(progress)
    /\ pc' = "save"
    /\ UNCHANGED <<uploaded_file, resize_image, max_size, selected_method,
                   color_count, img, new_size, fills, fill_cache, x, y,
                   notices, buffer, raised, download>>

\* lines 78-80: the saved workbook in a BytesIO, rewound.  The data is the
\* sheet with each cell's fill resolved; a written file is never empty.
Document(sheet, heap) ==
    [title |-> sheet.title, column_widths |-> sheet.column_widths,
     row_heights |-> sheet.row_heights, showGridLines |-> sheet.showGridLines,
     cells |-> [c \in DOMAIN sheet.cells |-> heap[sheet.cells[c]]]]
SizeOf(doc) == 1 + Cardinality(DOMAIN doc.cells)
Seek(buf, offset) == [buf EXCEPT !.pos = offset]
\* mutant: line 80 is missing, the buffer stays at its end
SavedBufferNoSeek(sheet, heap) ==
    [data |-> Document(sheet, heap), pos |-> SizeOf(Document(sheet, heap))]

SavedBuffer(sheet, heap) ==
    Seek([data |-> Document(sheet, heap), pos |-> SizeOf(Document(sheet, heap))], 0)

(* Lines 78-82: the save.                                                   *)
Save ==
    /\ pc = "save"
    /\ buffer' = SavedBuffer(ws, fills)
    /\ notices' = Append(notices, [kind |-> "success"])
    /\ pc' = "return"
    /\ UNCHANGED <<uploaded_file, resize_image, max_size, selected_method,
                   color_count, img, new_size, ws, fills, fill_cache, x, y,
                   progress, raised, download>>

(* Lines 84 and 151-168: the buffer returns and is offered for download.   *)
Return ==
    /\ pc = "return"
    /\ download' = [data |-> buffer,
                    size_str |-> IF resize_image THEN <<max_size, "px">>
                                 ELSE <<"original">>]
    /\ pc' = "done"
    /\ UNCHANGED <<uploaded_file, resize_image, max_size, selected_method,
                   color_count, img, new_size, ws, fills, fill_cache, x, y,
                   progress, notices, buffer, raised>>

(* A library call of the current stage raises.                              *)
Raise ==
    /\ FailingStage # NoStage
    /\ Propagate(FailingStage)

(* Lines 170-172: the caller's except clause.                               *)
HandleException ==
    /\ pc = "except"
    /\ notices' = notices \o << [kind |-> "error", about |-> raised],
                               [kind |-> "error", about |-> "hint"] >>
    /\ pc' = "failed"
    /\ UNCHANGED <<uploaded_file, resize_image, max_size, selected_method,
                   color_count, img, new_size, ws, fills, fill_cache, x, y,
                   progress, buffer, raised, download>>

-----------------------------------------------------------------------------
Next ==
    \/ Click
    \/ Open
    \/ ComputeSize
    \/ DoResize
    \/ KeepSize
    \/ OriginalSize
    \/ CreateWorkbook
    \/ SetColumnWidths
    \/ SetRowHeights
    \/ StartWalk
    \/ PixelStep
    \/ RowDone
    \/ Finalize
    \/ Save
    \/ Return
    \/ Raise
    \/ HandleException

Spec == Init /\ [][Next]_vars

\* the resize arithmetic alone, on larger images
NextResize ==
    \/ Click
    \/ Open
    \/ ComputeSize
    \/ KeepSize
    \/ OriginalSize

SpecResize == InitResize /\ [][NextResize]_vars

\* the conversion with the colour quantizer between resize and encoding
NextQuant ==
    \/ Next
    \/ Quantize

SpecQuant == InitQuant /\ [][NextQuant]_vars


-----------------------------------------------------------------------------
(* Vocabulary of the properties.                                           *)

\* the resize decision is behind, the function has not left
PastResize ==
    pc \in {"quantize", "workbook", "columns", "rows", "cache", "walk",
            "save", "return", "done"}
\* the walk is over and line 74 has run
Encoded == pc \in {"save", "return", "done"}

\* the cells of a sheet of W columns by H rows, as <<row, column>>
Grid(W, H) == (1..H) \X (1..W)

\* reading a hex colour back
HexValue(ch) == CHOOSE i \in 0..15 : HexDigits[i + 1] = ch
ReadHex(hex) ==
    << 16 * HexValue(hex[1]) + HexValue(hex[2]),
       16 * HexValue(hex[3]) + HexValue(hex[4]),
       16 * HexValue(hex[5]) + HexValue(hex[6]) >>
FillRGB(fill) == ReadHex(fill.start_color)

\* every cell of Grid(image) carries the colour of its pixel of image
Reproduces(cellFill, image) ==
    /\ DOMAIN cellFill = Grid(image.w, image.h)
    /\ \A row \in 0..(image.h - 1), col \in 0..(image.w - 1) :
          FillRGB(cellFill[<<row + 1, col + 1>>]) = image.pix[<<col, row>>]

\* the upload as RGB: its own pixels, the alpha channel left out
UploadRGB ==
    [mode |-> "RGB", w |-> uploaded_file.w, h |-> uploaded_file.h,
     pix |-> [c \in DOMAIN uploaded_file.pix |->
                SubSeq(uploaded_file.pix[c], 1, 3)]]

IntMax(a, b) == IF a >= b THEN a ELSE b
IntMin(a, b) == IF a <= b THEN a ELSE b

-----------------------------------------------------------------------------
(* C1: with resizing on and neither side of the W x H upload above         *)
(* max_size, no resize is computed or performed: the image keeps its       *)
(* size and the encoded grid is W columns by H rows.                       *)
C1_ResizeNoOp ==
    (resize_image /\ uploaded_file.w <= max_size /\ uploaded_file.h <= max_size) =>
        /\ pc # "do_resize"
        /\ new_size = None
        /\ PastResize => img.w = uploaded_file.w /\ img.h = uploaded_file.h
        /\ Encoded =>
              /\ DOMAIN ws.cells = Grid(uploaded_file.w, uploaded_file.h)
              /\ DOMAIN ws.column_widths =
                     { get_column_letter(c) : c \in 1..uploaded_file.w }
              /\ DOMAIN ws.row_heights = 1..uploaded_file.h
        /\ pc = "done" =>
              DOMAIN download.data.data.cells = Grid(uploaded_file.w, uploaded_file.h)

C1_Witness ==
    /\ pc = "done"
    /\ resize_image
    /\ uploaded_file.w = 2 /\ uploaded_file.h = 1 /\ max_size = 2
    /\ DOMAIN download.data.data.cells = Grid(2, 1)

(* C2: whenever the resize branch is taken, the larger computed side       *)
(* equals max_size and the smaller one is within less than one pixel of    *)
(* the exact proportional value.                                            *)
C2_ResizeHitsBound ==
    pc = "do_resize" =>
        LET L  == IntMax(img.w, img.h)
            S  == IntMin(img.w, img.h)
            ol == IntMax(new_size.new_width, new_size.new_height)
            os == IntMin(new_size.new_width, new_size.new_height)
        IN  /\ ol = max_size
            /\ os * L - S * max_size < L
            /\ S * max_size - os * L < L

C4_RoundTrip ==
    /\ Encoded => Reproduces([c \in DOMAIN ws.cells |-> fills[ws.cells[c]]], img)
    /\ pc \in {"return", "done"} => Reproduces(buffer.data.cells, img)
    /\ pc = "done" => Reproduces(download.data.data.cells, img)

C4_Witness ==
    /\ pc = "done"
    /\ img.w = 2 /\ img.h = 2
    /\ img.pix[<<1, 0>>] # img.pix[<<0, 1>>]
    /\ FillRGB(download.data.data.cells[<<1, 2>>]) = img.pix[<<1, 0>>]

(* C5: in every state of the walk and after it, two processed pixels of    *)
(* equal colour carry the same fill object, and the cache has no more      *)
(* entries than the processed image has distinct colours.                  *)
C5_CacheCorrect ==
    pc \in {"walk", "save", "return", "done"} =>
        /\ \A c1 \in DOMAIN ws.cells, c2 \in DOMAIN ws.cells :
              img.pix[<<c1[2] - 1, c1[1] - 1>>] = img.pix[<<c2[2] - 1, c2[1] - 1>>]
                  => ws.cells[c1] = ws.cells[c2]
        /\ Cardinality(DOMAIN fill_cache) <= Cardinality(Colors(img))

C5_Witness ==
    /\ pc = "walk"
    /\ y < img.h
    /\ Cardinality(DOMAIN ws.cells) = 3
    /\ Cardinality(DOMAIN fill_cache) = 2
    /\ \E c1 \in DOMAIN ws.cells, c2 \in DOMAIN ws.cells :
          c1 # c2 /\ ws.cells[c1] = ws.cells[c2]

(* C6, as claimed: a finished conversion of an image of height H has       *)
(* called the progress sink exactly H times, with strictly increasing      *)
(* values, the last of them 1.0.                                           *)
C6_ExactlyHCalls ==
    Encoded =>
        /\ Len(progress) = img.h
        /\ \A i \in 1..Len(progress), j \in 1..Len(progress) :
              i < j => FloatLess(progress[i].value, progress[j].value)
        /\ progress[Len(progress)].value = FloatOne

(* C6, amended: progress_bar.progress is called once after each completed  *)
(* row, with strictly increasing values of which the H-th is 1.0, and      *)
(* once more by line 76, again with 1.0: H + 1 calls in all.               *)
C6_RowCallsThenFinal ==
    /\ pc = "walk" =>
          /\ Len(progress) = y
          /\ \A i \in 1..Len(progress), col \in 1..img.w : <<i, col>> \in DOMAIN ws.cells
    /\ Encoded =>
          /\ Len(progress) = img.h + 1
          /\ \A i \in 1..img.h, j \in 1..img.h :
                i < j => FloatLess(progress[i].value, progress[j].value)
          /\ progress[img.h].value = FloatOne
          /\ progress[img.h].text = ""
          /\ progress[img.h + 1].value = FloatOne
          /\ progress[img.h + 1].text = "Finalizing"

C6_Witness ==
    /\ pc = "done"
    /\ img.h = 2
    /\ Len(progress) = 3
    /\ FloatLess(progress[1].value, progress[2].value)
    /\ progress[2].value = progress[3].value

(* C7: with resizing off, neither max_size nor the resampling method has   *)
(* any effect: no size is computed, the image is the upload itself, and    *)
(* the encoded grid has the upload's size and (RGB) colours.               *)
C7_ResizeOffIgnoresSettings ==
    ~resize_image =>
        /\ pc # "do_resize"
        /\ new_size = None
        /\ PastResize => img = UploadRGB
        /\ Encoded =>
              Reproduces([c \in DOMAIN ws.cells |-> fills[ws.cells[c]]], UploadRGB)
        /\ pc = "done" => Reproduces(download.data.data.cells, UploadRGB)

C7_Witness ==
    /\ pc = "done"
    /\ ~resize_image
    /\ uploaded_file.w > max_size
    /\ selected_method = "LANCZOS"
    /\ uploaded_file.mode = "RGBA"
    /\ Cardinality(DOMAIN download.data.data.cells) = uploaded_file.w * uploaded_file.h

(* C8: once a stage has failed, the function is left for the caller's      *)
(* except clause: no buffer exists, none is offered for download, and the  *)
(* caller reports the error.                                               *)
C8_FailurePropagates ==
    /\ raised # NoStage =>
          /\ pc \in {"except", "failed"}
          /\ buffer = None
          /\ download = None
    /\ pc = "failed" =>
          \E i \in 1..Len(notices) :
              notices[i] = [kind |-> "error", about |-> raised]

C8_Witness ==
    /\ pc = "failed"
    /\ raised = "pixel walk"
    /\ Len(progress) >= 1
    /\ download = None

(* C9: the stages run in a fixed order: no sheet before the resize         *)
(* decision; all column widths and row heights before the walk; cells in   *)
(* row-major order; gridlines off only after the last row; the save only   *)
(* after that, and the buffer handed over stands at offset 0.              *)
C9_StageOrder ==
    /\ pc \in {"idle", "open", "resize", "do_resize", "quantize", "workbook"} =>
          ws = None
    /\ pc \in {"columns", "rows", "cache"} => ws.cells = <<>>
    /\ pc \in {"walk", "save", "return", "done"} =>
          /\ DOMAIN ws.column_widths = { get_column_letter(c) : c \in 1..img.w }
          /\ DOMAIN ws.row_heights = 1..img.h
          /\ \A l \in DOMAIN ws.column_widths : ws.column_widths[l] = COLUMN_WIDTH
          /\ \A r \in DOMAIN ws.row_heights : ws.row_heights[r] = ROW_HEIGHT
    /\ pc = "walk" =>
          /\ DOMAIN ws.cells =
                 Grid(img.w, y) \cup { <<y + 1, c>> : c \in 1..x }
          /\ ws.showGridLines
          /\ buffer = None
    /\ Encoded =>
          /\ DOMAIN ws.cells = Grid(img.w, img.h)
          /\ ~ws.showGridLines
    /\ pc = "save" => buffer = None
    /\ pc \in {"return", "done"} =>
          /\ ~buffer.data.showGridLines
          /\ DOMAIN buffer.data.cells = Grid(img.w, img.h)
          /\ buffer.pos = 0
    /\ pc = "done" => download.data = buffer
    /\ pc # "done" => download = None

C9_Witness ==
    /\ pc = "done"
    /\ Cardinality(DOMAIN download.data.data.cells) = 4
    /\ download.data.pos = 0
    /\ ~download.data.data.showGridLines

(* C10: whenever the resize branch is taken, both computed sides lie in    *)
(* 1..max_size, so the resized image is never empty.                       *)
C10_NewSizeInRange ==
    pc = "do_resize" =>
        /\ new_size.new_width \in 1..max_size
        /\ new_size.new_height \in 1..max_size

=============================================================================
